---- MODULE Spec2Model ----
(***************************************************************************)
(* Model of the refresh-coalescing response interceptor of SquareAxios     *)
(* (src/shared/libs/api/axios/response-error-interceptor.ts, index.ts).    *)
(*                                                                         *)
(* The event loop is single-threaded: a handler runs from the arrival of   *)
(* an HTTP answer to its next suspension point (an await on an HTTP call,  *)
(* or a promise that only a waiter callback settles) without interleaving. *)
(* One action is one such handler run.                                     *)
(***************************************************************************)
EXTENDS Integers, Sequences, FiniteSets, TLC

\* Number of requests the application issues through the client.
NReq == 3

\* Caller requests are numbered in the order the application issues them.
Callers == 1..NReq

\* The config object of the k-th refresh call (SquareAxios.post builds a fresh
\* config for every call, so each one has its own _retry marker).
RefreshCfg(k) == 0 - k

UNAUTHORIZED == 401
SERVER_ERROR == 500

VARIABLES
    isRefreshing,        \* module-level flag
    refreshSubscribers,  \* module-level queue of waiter callbacks
    retry,               \* originalRequest._retry of every caller request
    attempts,            \* HTTP calls sent so far for every caller request
    phase,               \* where the promise chain of a caller request stands
    outcome,             \* settlement of the promise returned to the caller
    refreshes,           \* the refresh calls issued so far, oldest first:
                         \*   owner    the request whose handler awaits the call
                         \*   state    "inflight", "ok", "failed", or "subscribed"
                         \*            (its own 401 queued it as a waiter)
                         \*   retry    the _retry marker of the call's config
                         \*   joined   history: configs queued during the call
                         \*   drained  history: callbacks invoked at settlement
    replays,             \* caller requests re-sent, in the order of re-sending
    navigations,         \* assignments of window.location.href = "/signin"
    window,              \* typeof window, once line 55 has observed it
    episode,             \* history: refresh call a caller request was tied to
    answeredBefore       \* history: refresh calls already answered at that time

vars == <<isRefreshing, refreshSubscribers, retry, attempts, phase, outcome,
          refreshes, replays, navigations, window, episode,
          answeredBefore>>

NoError == [cfg |-> 0, attempt |-> 0, status |-> 0, cancelled |-> FALSE,
            hasConfig |-> FALSE]

\* The AxiosError of the attempt-th call made with config cfg.
AxiosError(cfg, attempt, status, cancelled, hasConfig) ==
    [cfg |-> cfg, attempt |-> attempt, status |-> status,
     cancelled |-> cancelled, hasConfig |-> hasConfig]

\* The identity of an error object: an error is created once per failed call,
\* so the call it answers (config and attempt) identifies it.
ErrorId(e) == <<e.cfg, e.attempt>>
NoErrorId == ErrorId(NoError)

\* Settlement of a promise: the response it resolved with (the attempt whose
\* response it is; 0 for null), or the error object it rejected with.
Pending ==
    [kind |-> "pending", attempt |-> 0, err |-> NoErrorId, status |-> 0]
Resolved(attempt) ==
    [kind |-> "resolved", attempt |-> attempt, err |-> NoErrorId, status |-> 0]
Rejected(e) ==
    [kind |-> "rejected", attempt |-> 0, err |-> ErrorId(e), status |-> e.status]

Init ==
    /\ isRefreshing = FALSE
    /\ refreshSubscribers = <<>>
    /\ retry = [r \in Callers |-> FALSE]
    /\ attempts = [r \in Callers |-> 0]
    /\ phase = [r \in Callers |-> "new"]
    /\ outcome = [r \in Callers |-> Pending]
    /\ refreshes = <<>>
    /\ replays = <<>>
    /\ navigations = 0
    /\ window = "unobserved"
    /\ episode = [r \in Callers |-> 0]
    /\ answeredBefore = [r \in Callers |-> 0]

\* Number of refresh calls whose answer has been handled.
Answered == Cardinality({k \in 1..Len(refreshes) : refreshes[k].state # "inflight"})

\* The _retry marker of a config (caller request or refresh call).
RetryOf(cfg) == IF cfg \in Callers THEN retry[cfg] ELSE refreshes[0 - cfg].retry

\* The interceptor without the isRefreshing test of line 30.
InterceptorBranchNoCoalescing(e, cfg) ==
    IF e.cancelled THEN "cancel"
    ELSE IF e.status = UNAUTHORIZED /\ e.hasConfig /\ ~RetryOf(cfg)
         THEN "refresh"
         ELSE "reject"

\* The interceptor without the _retry test of line 27.
InterceptorBranchNoRetryGuard(e, cfg) ==
    IF e.cancelled THEN "cancel"
    ELSE IF e.status = UNAUTHORIZED /\ e.hasConfig
         THEN (IF isRefreshing THEN "subscribe" ELSE "refresh")
         ELSE "reject"

\* The interceptor with the isCancel test of line 23 after the 401 test.
InterceptorBranchCancelLate(e, cfg) ==
    IF e.status = UNAUTHORIZED /\ e.hasConfig /\ ~RetryOf(cfg)
    THEN (IF isRefreshing THEN "subscribe" ELSE "refresh")
    ELSE IF e.cancelled THEN "cancel" ELSE "reject"

\* The interceptor without the originalRequest test of line 27.
InterceptorBranchNoConfigTest(e, cfg) ==
    IF e.cancelled THEN "cancel"
    ELSE IF e.status = UNAUTHORIZED /\ ~RetryOf(cfg)
         THEN (IF isRefreshing THEN "subscribe" ELSE "refresh")
         ELSE "reject"

\* The interceptor with the isRefreshing test of line 30 inverted.
InterceptorBranchInverted(e, cfg) ==
    IF e.cancelled THEN "cancel"
    ELSE IF e.status = UNAUTHORIZED /\ e.hasConfig /\ ~RetryOf(cfg)
         THEN (IF isRefreshing THEN "refresh" ELSE "subscribe")
         ELSE "reject"

\* Which way responseErrorInterceptor goes for error e of config cfg.
InterceptorBranch(e, cfg) ==
    IF e.cancelled THEN "cancel"
    ELSE IF e.status = UNAUTHORIZED /\ e.hasConfig /\ ~RetryOf(cfg)
         THEN (IF isRefreshing THEN "subscribe" ELSE "refresh")
         ELSE "reject"

\* subscribeRefresh with unshift in place of push.
subscribeRefreshAtFront(subs, cfg, e) == <<[cfg |-> cfg, error |-> e]>> \o subs

\* A waiter callback closes over originalRequest and error.
subscribeRefresh(subs, cfg, e) == Append(subs, [cfg |-> cfg, error |-> e])

\* The application calls SquareAxios(config) for its next request.
request(r) ==
    /\ phase[r] = "new"
    /\ \A q \in Callers : q < r => phase[q] # "new"
    /\ attempts' = [attempts EXCEPT ![r] = 1]
    /\ phase' = [phase EXCEPT ![r] = "inflight"]
    /\ UNCHANGED <<isRefreshing, refreshSubscribers, retry, outcome, refreshes,
                   replays, navigations, window, episode, answeredBefore>>

\* A call of a caller request is on the wire (first attempt or replay).
OnWire(r) == phase[r] \in {"inflight", "replaying"}

\* The answer is a 2xx: the fulfilment handler (r) => r hands the response on.
Fulfilled(r) ==
    /\ OnWire(r)
    /\ outcome' = [outcome EXCEPT ![r] = Resolved(attempts[r])]
    /\ phase' = [phase EXCEPT ![r] = "settled"]
    /\ UNCHANGED <<isRefreshing, refreshSubscribers, retry, attempts, refreshes,
                   replays, navigations, window, episode, answeredBefore>>

\* if (axios.isCancel(error)) return Promise.resolve(null)
ResolveCancelled(r, e) ==
    /\ InterceptorBranch(e, r) = "cancel"
    /\ outcome' = [outcome EXCEPT ![r] = Resolved(0)]
    /\ phase' = [phase EXCEPT ![r] = "settled"]
    /\ UNCHANGED <<isRefreshing, refreshSubscribers, retry, attempts, refreshes,
                   replays, navigations, window, episode, answeredBefore>>

\* The 401 handler re-sending the request at once instead of queueing it.
ReplayAtOnce(r, e) ==
    /\ InterceptorBranch(e, r) = "subscribe"
    /\ retry' = [retry EXCEPT ![r] = TRUE]
    /\ replays' = Append(replays, r)
    /\ attempts' = [attempts EXCEPT ![r] = @ + 1]
    /\ phase' = [phase EXCEPT ![r] = "replaying"]
    /\ episode' = [episode EXCEPT ![r] = Len(refreshes)]
    /\ answeredBefore' = [answeredBefore EXCEPT ![r] = Answered]
    /\ UNCHANGED <<isRefreshing, refreshSubscribers, outcome, refreshes,
                   navigations, window>>

\* 401, not yet retried, a refresh is in flight: queue a waiter callback.
SubscribeWaiter(r, e) ==
    /\ InterceptorBranch(e, r) = "subscribe"
    /\ retry' = [retry EXCEPT ![r] = TRUE]
    /\ refreshSubscribers' = subscribeRefresh(refreshSubscribers, r, e)
    /\ phase' = [phase EXCEPT ![r] = "subscribed"]
    /\ episode' = [episode EXCEPT ![r] = Len(refreshes)]
    /\ answeredBefore' = [answeredBefore EXCEPT ![r] = Answered]
    /\ refreshes' = [refreshes EXCEPT ![Len(refreshes)].joined = Append(@, r)]
    /\ UNCHANGED <<isRefreshing, attempts, outcome, replays, navigations,
                   window>>

\* 401, not yet retried, no refresh in flight: start one and await it.
StartRefresh(r, e) ==
    /\ InterceptorBranch(e, r) = "refresh"
    /\ retry' = [retry EXCEPT ![r] = TRUE]
    /\ isRefreshing' = TRUE
    /\ refreshes' = Append(refreshes, [owner |-> r, state |-> "inflight",
                                       retry |-> FALSE, joined |-> <<>>,
                                       drained |-> <<>>])
    /\ phase' = [phase EXCEPT ![r] = "awaiting"]
    /\ episode' = [episode EXCEPT ![r] = Len(refreshes) + 1]
    /\ answeredBefore' = [answeredBefore EXCEPT ![r] = Answered]
    /\ UNCHANGED <<refreshSubscribers, attempts, outcome, replays, navigations,
                   window>>

\* Promise.reject(error) preceded by the navigation to /signin.
RejectErrorAndRedirect(r, e) ==
    /\ InterceptorBranch(e, r) = "reject"
    /\ outcome' = [outcome EXCEPT ![r] = Rejected(e)]
    /\ phase' = [phase EXCEPT ![r] = "settled"]
    /\ navigations' = navigations + 1
    /\ UNCHANGED <<isRefreshing, refreshSubscribers, retry, attempts, refreshes,
                   replays, window, episode, answeredBefore>>

\* return Promise.reject(error)
RejectError(r, e) ==
    /\ InterceptorBranch(e, r) = "reject"
    /\ outcome' = [outcome EXCEPT ![r] = Rejected(e)]
    /\ phase' = [phase EXCEPT ![r] = "settled"]
    /\ UNCHANGED <<isRefreshing, refreshSubscribers, retry, attempts, refreshes,
                   replays, navigations, window, episode, answeredBefore>>

\* The answer to a call of caller request r is the error e.
responseErrorInterceptor(r, e) ==
    /\ OnWire(r)
    /\ \/ ResolveCancelled(r, e)
       \/ SubscribeWaiter(r, e)
       \/ StartRefresh(r, e)
       \/ RejectError(r, e)

\* <<status, cancelled, has a config>> of the errors a call is answered with:
\* a cancellation (with either status), a 401 with and without error.config,
\* and another failure.
ErrorShapes ==
    {<<UNAUTHORIZED, TRUE, TRUE>>, <<SERVER_ERROR, TRUE, TRUE>>,
     <<UNAUTHORIZED, FALSE, TRUE>>, <<UNAUTHORIZED, FALSE, FALSE>>,
     <<SERVER_ERROR, FALSE, TRUE>>}

\* The errors the current call of caller request r can be answered with.
ErrorsOf(r) ==
    {AxiosError(r, attempts[r], sh[1], sh[2], sh[3]) : sh \in ErrorShapes}

\* The refresh call that is on the wire (0: none).
InFlight ==
    IF Len(refreshes) > 0 /\ refreshes[Len(refreshes)].state = "inflight"
    THEN Len(refreshes) ELSE 0

\* onRefreshed skipping the first callback.
onRefreshedSkipFirst(subs) ==
    IF subs = <<>> THEN <<>>
    ELSE [i \in 1..(Len(subs) - 1) |-> subs[i + 1].cfg]

\* onRefreshed iterating from the end of the queue.
onRefreshedReversed(subs) ==
    [i \in 1..Len(subs) |-> subs[Len(subs) + 1 - i].cfg]

\* The configs of the waiter callbacks in the order onRefreshed invokes them.
onRefreshed(subs) == [i \in 1..Len(subs) |-> subs[i].cfg]

\* The caller requests among a sequence of configs.
CallersIn(cfgs) == {cfgs[i] : i \in 1..Len(cfgs)} \cap Callers

\* The refresh call is answered 2xx: lines 47-50.
RefreshFulfilled ==
    /\ InFlight # 0
    /\ LET k == InFlight
           owner == refreshes[k].owner
           order == onRefreshed(refreshSubscribers)
           sent == Append(order, owner)
       IN /\ isRefreshing' = FALSE
          /\ refreshSubscribers' = <<>>
          /\ refreshes' = [refreshes EXCEPT ![k].state = "ok",
                                            ![k].drained = order]
          /\ replays' = replays \o sent
          /\ attempts' = [r \in Callers |->
                            attempts[r] +
                            Cardinality({i \in 1..Len(sent) : sent[i] = r})]
          /\ phase' = [r \in Callers |->
                            IF r \in CallersIn(sent) THEN "replaying"
                            ELSE phase[r]]
    /\ UNCHANGED <<retry, outcome, navigations, window, episode,
                   answeredBefore>>

\* The errors the refresh call on the wire can be answered with.  The call is
\* made without an abort signal, so its error is never a cancellation.
RefreshErrors ==
    {AxiosError(RefreshCfg(InFlight), 1, sh[1], FALSE, sh[3]) :
        sh \in {x \in ErrorShapes : ~x[2]}}

\* The refresh call is answered with an error that its own interceptor run
\* rejects: the await throws, lines 51-59.  Whether a window exists is a fact
\* of the environment that does not change; the first run of line 55 observes
\* it (browser: "object", server: "undefined").
RefreshRejected(e) ==
    /\ InFlight # 0
    /\ InterceptorBranch(e, e.cfg) = "reject"
    /\ LET k == InFlight
           owner == refreshes[k].owner
           order == onRefreshed(refreshSubscribers)
           subs == refreshSubscribers
       IN /\ isRefreshing' = FALSE
          /\ refreshSubscribers' = <<>>
          /\ refreshes' = [refreshes EXCEPT ![k].state = "failed",
                                            ![k].drained = order]
          /\ outcome' = [r \in Callers |->
                IF r = owner THEN Rejected(e)
                ELSE IF r \in CallersIn(order)
                     THEN Rejected(subs[CHOOSE i \in 1..Len(subs) :
                                            subs[i].cfg = r].error)
                     ELSE outcome[r]]
          /\ phase' = [r \in Callers |->
                IF r = owner \/ r \in CallersIn(order) THEN "settled"
                ELSE phase[r]]
          /\ \E w \in {"object", "undefined"} :
                /\ window \in {"unobserved", w}
                /\ window' = w
                /\ navigations' = IF w # "undefined" THEN navigations + 1
                                   ELSE navigations
    /\ UNCHANGED <<retry, attempts, replays, episode, answeredBefore>>

\* The refresh call is answered 401: its own interceptor run finds its config
\* not yet retried and isRefreshing set, and queues the refresh call itself as
\* a waiter (lines 27-39).  The await of line 45 stays pending.
RefreshSubscribed(e) ==
    /\ InFlight # 0
    /\ InterceptorBranch(e, e.cfg) = "subscribe"
    /\ LET k == InFlight
       IN /\ refreshes' = [refreshes EXCEPT ![k].state = "subscribed",
                                            ![k].retry = TRUE,
                                            ![k].joined = Append(@, e.cfg)]
          /\ refreshSubscribers' = subscribeRefresh(refreshSubscribers, e.cfg, e)
    /\ UNCHANGED <<isRefreshing, retry, attempts, phase, outcome, replays,
                   navigations, window, episode, answeredBefore>>

Next ==
    \/ \E r \in Callers : request(r)
    \/ \E r \in Callers : Fulfilled(r)
    \/ \E r \in Callers : \E e \in ErrorsOf(r) : responseErrorInterceptor(r, e)
    \/ RefreshFulfilled
    \/ \E e \in RefreshErrors : RefreshRejected(e)
    \/ \E e \in RefreshErrors : RefreshSubscribed(e)

Spec == Init /\ [][Next]_vars

\* The same client when the application has issued its first n requests
\* together, before any answer has arrived, and issues no other request.
InitBurst ==
    /\ isRefreshing = FALSE
    /\ refreshSubscribers = <<>>
    /\ retry = [r \in Callers |-> FALSE]
    /\ \E n \in Callers :
          /\ attempts = [r \in Callers |-> IF r <= n THEN 1 ELSE 0]
          /\ phase = [r \in Callers |-> IF r <= n THEN "inflight" ELSE "new"]
    /\ outcome = [r \in Callers |-> Pending]
    /\ refreshes = <<>>
    /\ replays = <<>>
    /\ navigations = 0
    /\ window = "unobserved"
    /\ episode = [r \in Callers |-> 0]
    /\ answeredBefore = [r \in Callers |-> 0]

NextBurst ==
    \/ \E r \in Callers : Fulfilled(r)
    \/ \E r \in Callers : \E e \in ErrorsOf(r) : responseErrorInterceptor(r, e)
    \/ RefreshFulfilled
    \/ \E e \in RefreshErrors : RefreshRejected(e)
    \/ \E e \in RefreshErrors : RefreshSubscribed(e)

SpecBurst == InitBurst /\ [][NextBurst]_vars

\* Caller requests issued so far, and those whose first attempt was answered
\* with a 401 that entered the refresh protocol.
Issued == {r \in Callers : phase[r] # "new"}
Expired == {r \in Callers : episode[r] # 0}

\* C1 as stated (under SpecBurst, where the N requests are on the wire
\* together): when each of them has received a first-attempt 401, exactly one
\* refresh call has been issued in total, whenever the answers arrive.
C1_SingleRefreshAnyTiming ==
    (Issued # {} /\ Expired = Issued) => Len(refreshes) = 1

\* C1 amended (under SpecBurst): when each of the N requests has received a
\* first-attempt 401, and every one of those 401s was handled before the answer
\* to the refresh call, exactly one refresh call has been issued in total.
C1_SingleRefresh ==
    (/\ Issued # {}
     /\ Expired = Issued
     /\ \A r \in Expired : answeredBefore[r] = 0) => Len(refreshes) = 1

\* Three requests all failed with 401 before the one refresh call was
\* answered, and it has been answered since.
C1_Witness ==
    /\ Cardinality(Expired) >= 3
    /\ Expired = Issued
    /\ \A r \in Expired : answeredBefore[r] = 0
    /\ Answered = 1
    /\ Len(refreshes) = 1

\* Number of times caller request r was re-sent.
Replayed(r) == Cardinality({i \in 1..Len(replays) : replays[i] = r})

\* The refresh call a request was tied to has been answered 2xx / with an error.
RefreshOk(r) == episode[r] # 0 /\ refreshes[episode[r]].state = "ok"
RefreshErr(r) ==
    episode[r] # 0 /\ refreshes[episode[r]].state \in {"failed", "subscribed"}

\* C2: once the refresh call of its episode has succeeded, a request that failed
\* with a first-attempt 401 (initiator or waiter) has been re-sent exactly once,
\* and its promise settles only with what the replay yields: the replay
\* response, the replay error, or null for a cancelled replay; never with the
\* error of the first attempt.
C2_ReplayCorrectness ==
    \A r \in Callers :
        RefreshOk(r) =>
            /\ Replayed(r) = 1
            /\ attempts[r] = 2
            /\ outcome[r].kind = "pending" <=> phase[r] = "replaying"
            /\ outcome[r].kind = "resolved" => outcome[r].attempt \in {0, 2}
            /\ outcome[r].kind = "rejected" => outcome[r].err = <<r, 2>>

\* An initiator and a waiter of a successful refresh have both settled, one
\* resolved with its replay response and one rejected with its replay error.
C2_Witness ==
    \E r, q \in Callers :
        /\ RefreshOk(r) /\ RefreshOk(q) /\ episode[r] = episode[q]
        /\ refreshes[episode[r]].owner = r
        /\ outcome[r] = Resolved(2)
        /\ outcome[q].kind = "rejected" /\ outcome[q].err = <<q, 2>>

\* C3 as stated: once the refresh call has been answered with an error (of any
\* status), every request of that episode is rejected and none was re-sent.
C3_FailureFanOut ==
    \A r \in Callers :
        RefreshErr(r) =>
            /\ outcome[r].kind = "rejected"
            /\ attempts[r] = 1
            /\ Replayed(r) = 0

\* C4: a caller request is sent at most twice, and a 401 answer to a request
\* whose _retry marker is set is rejected to the caller with that very error
\* without starting a refresh call or queueing a waiter.
C4_OneShotRetry ==
    /\ [](\A r \in Callers : attempts[r] <= 2)
    /\ [][\A r \in {q \in Callers : phase'[q] # phase[q]} :
          \A e \in ErrorsOf(r) :
            (/\ retry[r]
             /\ e.status = UNAUTHORIZED
             /\ ~e.cancelled
             /\ responseErrorInterceptor(r, e))
            => /\ outcome'[r] = Rejected(e)
               /\ refreshes' = refreshes
               /\ refreshSubscribers' = refreshSubscribers
               /\ isRefreshing' = isRefreshing
               /\ attempts' = attempts]_vars

\* The replay of a request was answered 401 and that error reached the caller.
C4_Witness ==
    \E r \in Callers :
        /\ retry[r]
        /\ attempts[r] = 2
        /\ outcome[r].kind = "rejected"
        /\ outcome[r].err = <<r, 2>>
        /\ outcome[r].status = UNAUTHORIZED

\* C5: a cancelled call resolves with null, in either state and whatever
\* status the error carries, and leaves isRefreshing, the waiter queue and the
\* _retry marker as they were; no refresh call and no replay is issued.
C5_CancellationTransparency ==
    [][\A r \in {q \in Callers : phase'[q] # phase[q]} :
          \A e \in ErrorsOf(r) :
            (e.cancelled /\ responseErrorInterceptor(r, e))
            => /\ outcome'[r] = Resolved(0)
               /\ UNCHANGED <<isRefreshing, refreshSubscribers, retry,
                              refreshes, replays, attempts>>]_vars

\* A first attempt was cancelled while a refresh call was in flight: it
\* resolved with null and its _retry marker is still unset.
C5_Witness ==
    \E r \in Callers :
        /\ outcome[r] = Resolved(0)
        /\ ~retry[r]
        /\ isRefreshing
        /\ InFlight # 0

\* Refresh calls that were answered with an error.
RefreshFailures ==
    {k \in 1..Len(refreshes) : refreshes[k].state \in {"failed", "subscribed"}}

\* C6 as stated: where a window exists, every refresh call that was answered
\* with an error has caused exactly one navigation to /signin.
C6_OneRedirectPerFailure ==
    window # "undefined" => navigations = Cardinality(RefreshFailures)

\* The event loop runs a handler for every answer that arrives, and the server
\* answers every call.
FairSpec == Spec /\ WF_vars(Next)

\* C7 as stated: once the refresh call has been answered, with a 2xx or with
\* any error, isRefreshing eventually is false and the waiter queue empty.
C7_RefreshEpisodesEnd ==
    (Len(refreshes) > 0 /\ InFlight = 0)
        ~> (~isRefreshing /\ refreshSubscribers = <<>>)

\* C8: an error of a caller request that is no cancellation and is not a 401,
\* or is a 401 for a request already retried, or is a 401 without a config, is
\* rejected to the caller as the same error object; no refresh call and no
\* replay is issued and isRefreshing and the waiter queue stay as they were.
C8_OtherFailuresPassThrough ==
    [][\A r \in {q \in Callers : phase'[q] # phase[q]} :
          \A e \in ErrorsOf(r) :
            (/\ ~e.cancelled
             /\ e.status # UNAUTHORIZED \/ retry[r] \/ ~e.hasConfig
             /\ responseErrorInterceptor(r, e))
            => /\ outcome'[r] = Rejected(e)
               /\ UNCHANGED <<isRefreshing, refreshSubscribers, retry,
                              refreshes, replays, attempts>>]_vars

\* One request has been rejected with the non-401 error of its first attempt,
\* another with a first-attempt 401 that carried no config (its _retry marker
\* is unset), and a third with the 401 that answered its replay.
C8_Witness ==
    \E r, q, p \in Callers :
        /\ outcome[r].kind = "rejected" /\ outcome[r].err = <<r, 1>>
        /\ outcome[r].status = SERVER_ERROR
        /\ outcome[q].kind = "rejected" /\ outcome[q].err = <<q, 1>>
        /\ outcome[q].status = UNAUTHORIZED /\ ~retry[q]
        /\ outcome[p].kind = "rejected" /\ outcome[p].err = <<p, 2>>
        /\ outcome[p].status = UNAUTHORIZED /\ retry[p]

\* The elements of a sequence.
Range(seq) == {seq[i] : i \in 1..Len(seq)}

\* The replays of the waiters of refresh call k, in the order of re-sending.
WaiterReplays(k) ==
    LET W == Range(refreshes[k].joined)
        IsWaiter(x) == x \in W
    IN SelectSeq(replays, IsWaiter)

\* C9: when a refresh call settles, the waiters are invoked in the order in
\* which they were queued, and after a successful refresh their replays are
\* issued in that order.
C9_FifoDrain ==
    \A k \in 1..Len(refreshes) :
        /\ refreshes[k].state \in {"ok", "failed"}
              => refreshes[k].drained = refreshes[k].joined
        /\ refreshes[k].state = "ok" => WaiterReplays(k) = refreshes[k].joined

\* A successful refresh has drained two waiters that had queued in the order
\* opposite to the order in which their requests were issued.
C9_Witness ==
    \E k \in 1..Len(refreshes) :
        /\ refreshes[k].state = "ok"
        /\ Len(refreshes[k].joined) = 2
        /\ refreshes[k].joined[1] > refreshes[k].joined[2]
        /\ refreshes[k].drained = refreshes[k].joined

\* The three-request scenario: the first refresh call was started by a request
\* A, two requests B and C queued in this order while it was in flight, and it
\* succeeded.
Scenario ==
    /\ Len(refreshes) >= 1
    /\ refreshes[1].state = "ok"
    /\ Len(refreshes[1].joined) = 2

ScenarioA == refreshes[1].owner
ScenarioB == refreshes[1].joined[1]
ScenarioC == refreshes[1].joined[2]

\* What the promise of a replayed request can have settled with.
ReplayOutcomes(r) ==
    {Pending, Resolved(2), Resolved(0)}
        \cup {o \in {outcome[r]} : o.kind = "rejected" /\ o.err = <<r, 2>>}

\* C10 as stated: in the scenario the replays are issued in the order A, B, C.
C10_ReplayOrderABC ==
    Scenario => SubSeq(replays, 1, 3) = <<ScenarioA, ScenarioB, ScenarioC>>

\* C10 amended: in the scenario the three requests share the one refresh call
\* and are each re-sent exactly once, the waiters first, B then C, and A last;
\* each promise settles with what its replay yields, so that a replay answered
\* 2xx resolves it with the replay response.
C10_ReplayOrderBCA ==
    Scenario =>
        /\ SubSeq(replays, 1, 3) = <<ScenarioB, ScenarioC, ScenarioA>>
        /\ \A r \in {ScenarioA, ScenarioB, ScenarioC} :
              /\ episode[r] = 1
              /\ Replayed(r) = 1
              /\ outcome[r] \in ReplayOutcomes(r)

\* The scenario has run to its end: all three promises resolved with the
\* responses of their replays.
C10_Witness ==
    /\ Scenario
    /\ Len(refreshes) = 1
    /\ \A r \in {ScenarioA, ScenarioB, ScenarioC} : outcome[r] = Resolved(2)

\* The requests queued as waiters of a refresh call (not the request that
\* started it).
Waiters == {r \in Callers : episode[r] # 0 /\ refreshes[episode[r]].owner # r}

\* C11 as stated: a request queued while a refresh call is in flight never
\* starts a refresh call of its own, is re-sent only once that very call has
\* succeeded, and is rejected once that very call has been answered with an
\* error.
C11_SameOutcomeForWaiters ==
    /\ [](\A r \in Waiters :
            /\ \A k \in 1..Len(refreshes) : refreshes[k].owner # r
            /\ Replayed(r) > 0 => RefreshOk(r)
            /\ RefreshOk(r) => Replayed(r) = 1)
    /\ \A r \in Callers :
          (r \in Waiters /\ RefreshErr(r))
              ~> (outcome[r].kind = "rejected" /\ Replayed(r) = 0)

\* The error object of the k-th refresh call.
RefreshErrorId(k) == <<RefreshCfg(k), 1>>

\* C12 as stated: once the refresh call has been answered with an error, each
\* waiter is rejected with the 401 error of its own first attempt and the
\* request that started the refresh with the error of the refresh call.
C12_ErrorIdentityOnFailure ==
    \A r \in Callers :
        (episode[r] # 0 /\ RefreshErr(r))
            ~> /\ outcome[r].kind = "rejected"
               /\ outcome[r].err = IF r \in Waiters THEN <<r, 1>>
                                   ELSE RefreshErrorId(episode[r])

\* C13: a navigation to /signin happens only in the handler run in which a
\* refresh call fails, and once in it; the handling of a cancellation, of a
\* successful refresh, of a failed replay, of a non-401 failure or of an
\* exhausted 401 never navigates.
C13_RedirectOnlyOnRefreshFailure ==
    [][navigations' # navigations
         => /\ InFlight # 0
            /\ refreshes'[InFlight].state = "failed"
            /\ navigations' = navigations + 1]_vars

\* One navigation has happened, for the one failed refresh call, after a
\* cancellation, a successful refresh and the 401 of a replay were handled.
C13_Witness ==
    /\ navigations = 1
    /\ Cardinality({k \in 1..Len(refreshes) : refreshes[k].state = "failed"}) = 1
    /\ \E k \in 1..Len(refreshes) : refreshes[k].state = "ok"
    /\ \E r \in Callers : outcome[r] = Resolved(0)
    /\ \E r \in Callers :
          /\ outcome[r].kind = "rejected"
          /\ outcome[r].err = <<r, 2>>
          /\ outcome[r].status = UNAUTHORIZED

\* A refresh call is issued in this step by the first-attempt 401 of a request
\* that was not yet retried, handled while the client is idle.
IssuedByFresh401 ==
    \E r \in Callers :
        /\ phase[r] = "inflight"
        /\ ~retry[r] /\ retry'[r]
        /\ ~isRefreshing
        /\ refreshes' = Append(refreshes, refreshes'[Len(refreshes')])
        /\ refreshes'[Len(refreshes')].owner = r

\* C14 as stated: once a refresh call has been answered with an error the
\* client is back in IDLE, and a further refresh call is issued only when a
\* request that was not yet retried fails with 401 afterwards.
C14_NoRetryOfFailedRefresh ==
    /\ [][Len(refreshes') # Len(refreshes) => IssuedByFresh401]_vars
    /\ (RefreshFailures # {} /\ InFlight = 0) ~> ~isRefreshing

\* Refresh calls whose promise has not settled: the await of line 45 is
\* still pending.
Unsettled ==
    {k \in 1..Len(refreshes) : refreshes[k].state \in {"inflight", "subscribed"}}

\* C15: at most one refresh call is issued and not yet settled, and there is
\* one exactly when isRefreshing is true; a 401 handled while isRefreshing is
\* true issues no refresh call.
C15_AtMostOneRefreshInFlight ==
    /\ [](Cardinality(Unsettled) <= 1)
    /\ [](isRefreshing <=> Cardinality(Unsettled) = 1)
    /\ [][isRefreshing => Len(refreshes') = Len(refreshes)]_vars

\* A second refresh call is in flight, the first having settled, and a 401
\* handled meanwhile was queued instead of starting a third.
C15_Witness ==
    /\ Len(refreshes) = 2
    /\ InFlight = 2
    /\ isRefreshing
    /\ Len(refreshSubscribers) = 1

\* C16 as stated: with every HTTP call answered, the promise of every request
\* issued through the client is eventually resolved or rejected.
C16_EveryRequestSettles ==
    \A r \in Callers : (phase[r] # "new") ~> (outcome[r].kind # "pending")

\* The configs a waiter callback can close over, and whether one is queued.
Configs == Callers \cup {RefreshCfg(k) : k \in Callers}
Queued(cfg) ==
    \E i \in 1..Len(refreshSubscribers) : refreshSubscribers[i].cfg = cfg

\* C17 as stated: every queued callback is eventually invoked; the callbacks
\* invoked when a refresh call settles are exactly those queued during that
\* call, each once; and the queue is empty once the call has settled.
C17_WaitersDrainedExactlyOnce ==
    /\ \A cfg \in Configs : Queued(cfg) ~> ~Queued(cfg)
    /\ [](\A k \in 1..Len(refreshes) :
            refreshes[k].state \in {"ok", "failed"}
                => refreshes[k].drained = refreshes[k].joined)
    /\ [](Unsettled = {} => refreshSubscribers = <<>>)

\* C18 as stated: no answer to the refresh call makes the refresh call a
\* waiter: every queued callback belongs to a caller request.
C18_RefreshNeverItsOwnWaiter ==
    \A i \in 1..Len(refreshSubscribers) : refreshSubscribers[i].cfg \in Callers

\* C19: between handler runs the waiter queue is empty whenever isRefreshing
\* is false, and the config of every queued callback has its _retry marker
\* set.
C19_QueueFlagInvariant ==
    /\ ~isRefreshing => refreshSubscribers = <<>>
    /\ \A i \in 1..Len(refreshSubscribers) : RetryOf(refreshSubscribers[i].cfg)

\* The client is idle again with an empty queue after an episode that had two
\* waiters queued.
C19_Witness ==
    /\ ~isRefreshing
    /\ refreshSubscribers = <<>>
    /\ \E k \in 1..Len(refreshes) : Len(refreshes[k].joined) = 2

\* C20: a request is re-sent only in the handler run in which the refresh call
\* of its episode succeeds and isRefreshing goes back to false; while that
\* call is in flight no request of the episode has been re-sent.
C20_NoReplayBeforeRefreshSettles ==
    /\ [](\A r \in Callers : Replayed(r) > 0 => RefreshOk(r))
    /\ [][replays' # replays
            => /\ isRefreshing /\ ~isRefreshing'
               /\ InFlight # 0
               /\ refreshes'[InFlight].state = "ok"
               /\ \A i \in (Len(replays) + 1)..Len(replays') :
                     episode[replays'[i]] = InFlight]_vars

\* A refresh call is in flight with a waiter queued, neither the initiator
\* nor the waiter re-sent yet, after an earlier episode whose request was
\* re-sent.
C20_Witness ==
    /\ InFlight = 2
    /\ Len(refreshSubscribers) = 1
    /\ Len(replays) = 1
    /\ \A r \in Callers : episode[r] = 2 => Replayed(r) = 0
====
